---- MODULE Spec2Model ----
(***************************************************************************)
(* A model of the Blaze native execution bridge (native-engine/blaze/src/  *)
(* exec.rs) and of the shuffle segment reader (native-engine/              *)
(* datafusion-ext/src/shuffle_reader_exec.rs).                             *)
(*                                                                         *)
(* Five state machines share the module, each with its own specification:  *)
(*   Spec        the steady-state loop spawned by loadBatches, against a   *)
(*               caller that exchanges on the input channel and then on    *)
(*               the output channel for every item it requests;            *)
(*   ReaderSpec  ShuffleReaderStream (poll_next / next_segment) under a    *)
(*               poller that may poll again after any result;              *)
(*   InitSpec    initNative and the fault boundary handle_unwinded;        *)
(*   HandleSpec  the life of one execution handle: callNative, the tasks   *)
(*               on the handle's one-thread runtime (setTaskContext, then  *)
(*               the steady-state loop), and deallocIter at any moment;    *)
(*   PullSpec    the steady-state loop when loadBatches is called again on *)
(*               the same handle: every call spawns one more loop task.    *)
(***************************************************************************)
EXTENDS Integers, Sequences, FiniteSets, TLC

\* ------------------------------------------------------------------ bounds

\* Longest execution stream (items: batches and errors).
MaxStream == 3
\* Largest row count of a batch.
MaxRows == 2
\* Longest segment sequence.
MaxSegs == 2
\* The length every segment declares, in bytes.
SegLen == 2
\* Most batches one segment holds.
MaxSegBatches == 2
\* Most polls of one ShuffleReaderStream.
MaxPolls == 6
\* Most calls of initNative.
MaxInitCalls == 3
\* How many more times loadBatches is called on the handle after the first.
MaxMoreCalls == 1

\* --------------------------------------------------------------- variables

VARIABLES
    \* steady-state loop (exec.rs, loadBatches)
    stream,      \* the items blaze_iter.stream yields, in order
    pos,         \* how many items have been pulled from the stream
    ppc,         \* where the spawned task is
    cur,         \* the batch the task holds (the `batch` binding)
    inPtr,       \* the descriptors received by the input exchange
    payload,     \* the object the task offers to the output exchanger
    panicMsg,    \* panic_message of the panic caught by catch_unwind
    taskPanicked,\* the task itself ended in a panic (the trailing unwrap)
    ops,         \* the task's completed exchanges, in order
    cpc,         \* where the caller is
    cptr,        \* the descriptors the caller offers for its current request
    mem,         \* caller-owned memory: descriptor -> what was exported
    recv,        \* what the caller has received on the output channel
    envFault,    \* a JNI / export fault (not a stream error) has occurred
    raised,      \* the exception an entry point has raised to the caller
    aborted,     \* env.fatal_error was called
    \* segment reader (shuffle_reader_exec.rs, ShuffleReaderStream)
    segs,        \* the segments the Scala iterator `segments` holds, in order
    segPos,      \* how many segments next() has returned
    arrow_file_reader, \* the decoded-batch cursor, or NoReader
    rpc,         \* where poll_next is
    zdata_read_bytes,  \* bytes of the current segment read so far
    chanPos,     \* bytes the current channel has supplied
    out,         \* the results of the polls so far
    opened,      \* how many FileReaders have been opened
    \* process-wide runtime state (exec.rs, initNative)
    LOGGING_INIT,  \* the logging guard: "None" or "Some"
    java_classes,  \* JavaClasses::init has registered the host classes
    SESSIONCTX,    \* the session context: NoSessionCtx or the one built
    initLog,       \* one record per initNative call, in order
    \* one execution handle (exec.rs, callNative / deallocIter)
    iter_ptr,      \* what callNative returned: 0 before it returns, -1, or the address
    blaze_iter,    \* the BlazeIter allocation: "none", "live" or "freed"
    runtime,       \* the handle's tokio runtime: "none", "running" or "shutdown"
    ctx_task,      \* the setTaskContext task: "none", "queued", "done", "failed", "dropped"
    worker,        \* what the runtime's one worker thread has taken up: "idle", "loop",
                   \* or "crashed" after reading freed memory went wrong
    pendingEx,     \* the Java exception pending in the worker thread
    faultLog,      \* one record per panic caught by handle_unwinded in callNative
    \* further calls of loadBatches on the same handle (exec.rs, loadBatches)
    more_calls,    \* how many calls of loadBatches after the first have been made
    more_tasks     \* loop tasks those calls spawned that the worker has yet to take up

loopVars == <<stream, pos, ppc, cur, inPtr, payload, panicMsg, taskPanicked,
              ops, cpc, cptr, mem, recv, envFault, raised, aborted>>

readerVars == <<segs, segPos, arrow_file_reader, rpc, zdata_read_bytes, chanPos,
                out, opened>>

initVars == <<LOGGING_INIT, java_classes, SESSIONCTX, initLog>>

handleVars == <<iter_ptr, blaze_iter, runtime, ctx_task, worker, pendingEx, faultLog>>

pullVars == <<more_calls, more_tasks>>

vars == <<loopVars, readerVars, initVars, handleVars, pullVars>>

\* ------------------------------------------------------------------ values

NoBatch == [kind |-> "none", id |-> 0, rows |-> 0]
Batch(i, r) == [kind |-> "batch", id |-> i, rows |-> r]
ErrItem(i) == [kind |-> "err", id |-> i, rows |-> 0]

\* What one position of a stream can hold: a batch of 0..MaxRows rows, or an error.
ItemShapes == (0..MaxRows) \cup {-1}
MkItem(i, s) == IF s = -1 THEN ErrItem(i) ELSE Batch(i, s)

Streams ==
    UNION {{[i \in 1..n |-> MkItem(i, f[i])] : f \in [1..n -> ItemShapes]} : n \in 0..MaxStream}

\* The caller offers a fresh descriptor pair for every request.
DescIds == 1..(MaxStream + 1)

NoException == [kind |-> "none", msg |-> <<>>, cause |-> "null"]
RuntimeException(m, c) == [kind |-> "exception", msg |-> m, cause |-> c]
JavaBoolean(b) == [kind |-> "bool", val |-> b]
NoPayload == [kind |-> "nothing"]

\* Payloads as the caller sees them.
EndOfStream == [kind |-> "eos"]

\* Panic messages.
MsgStreamError(item) == <<"stream.next() error", item.id>>
MsgUnwrap(what) == <<"called Result::unwrap() on an Err value", what>>
MsgExport == <<"export_array_into_raw error">>

\* ---------------------------------------------------- segment reader values

\* A segment as the channel presents it: the length size() declares, the bytes
\* read() can supply, what read() does once they are used up, whether the bytes
\* decompress and parse as an IPC container, and the container's record batches
\* ("ok": decodes; "bad": the FileReader yields an ArrowError for it).
ItemSeqs == UNION {[1..n -> {"ok", "bad"}] : n \in 0..MaxSegBatches}

WholeSegments ==
    {[len |-> SegLen, supply |-> SegLen, tail |-> "eof", fmt |-> "ok", items |-> it] :
        it \in ItemSeqs}

UndecodableSegments ==
    {[len |-> SegLen, supply |-> SegLen, tail |-> "eof", fmt |-> f, items |-> <<>>] :
        f \in {"badz", "badc"}}

ShortSegments ==
    {[len |-> SegLen, supply |-> n, tail |-> t, fmt |-> "ok", items |-> <<>>] :
        n \in 0..(SegLen - 1), t \in {"eof", "ioerror", "zero"}}

Segments == WholeSegments \cup UndecodableSegments \cup ShortSegments

SegmentSeqs == UNION {[1..n -> Segments] : n \in 0..MaxSegs}

\* arrow_file_reader: None, or a FileReader over segment `seg` that has yielded
\* `at` of its batches.
NoReader == [seg |-> 0, at |-> 0]
FileReader(k) == [seg |-> k, at |-> 0]

\* Poll results.
ReadyBatch(k, j) == [kind |-> "batch", seg |-> k, idx |-> j]
ReadyErr(why, k) == [kind |-> "err", seg |-> k, why |-> why]
ReadyNone == [kind |-> "eos"]

\* ------------------------------------------- each machine's state at rest

LoopOff ==
    /\ stream = <<>>
    /\ pos = 0
    /\ ppc = "unspawned"
    /\ cur = NoBatch
    /\ inPtr = 0
    /\ payload = NoPayload
    /\ panicMsg = <<>>
    /\ taskPanicked = FALSE
    /\ ops = <<>>
    /\ cpc = "idle"
    /\ cptr = 1
    /\ mem = [d \in DescIds |-> NoBatch]
    /\ recv = <<>>
    /\ envFault = FALSE
    /\ raised = NoException
    /\ aborted = FALSE

ReaderOff ==
    /\ segs = <<>>
    /\ segPos = 0
    /\ arrow_file_reader = NoReader
    /\ rpc = "idle"
    /\ zdata_read_bytes = 0
    /\ chanPos = 0
    /\ out = <<>>
    /\ opened = 0

NoSessionCtx == [batch_size |-> 0, native_memory |-> 0, memory_fraction |-> "0", dirs |-> ""]

InitOff ==
    /\ LOGGING_INIT = "None"
    /\ java_classes = FALSE
    /\ SESSIONCTX = NoSessionCtx
    /\ initLog = <<>>

HandleOff ==
    /\ iter_ptr = 0
    /\ blaze_iter = "none"
    /\ runtime = "none"
    /\ ctx_task = "none"
    /\ worker = "idle"
    /\ pendingEx = "none"
    /\ faultLog = <<>>

PullOff ==
    /\ more_calls = 0
    /\ more_tasks = 0

\* ------------------------------------------------------- the fault boundary

\* The Java exception pending in the thread when a panic is caught.
PendingKinds == {"none", "InterruptedException", "other"}
\* The step of handle_unwinded at which the JNI environment fails, if any.
ReportFaults == {"none", "check", "clear", "build", "raise"}

Fatal(p) == [raised |-> NoException, aborted |-> TRUE, pending |-> p]

\* Mutant: the exception is built without its cause.
throw_runtime_exception_NullCause(msg, cause, f) ==
    IF f = "build" THEN Fatal("none")
    ELSE IF f = "raise" THEN [raised |-> NoException, aborted |-> FALSE, pending |-> "none"]
    ELSE [raised |-> RuntimeException(msg, "null"), aborted |-> FALSE,
          pending |-> "RuntimeException"]

\* throw_runtime_exception: build the RuntimeException (a failure is returned to
\* the caller of the function), then call JniBridge.raiseThrowable, whose result
\* is dropped (`let _throw = ...`).
throw_runtime_exception(msg, cause, f) ==
    IF f = "build" THEN Fatal("none")
    ELSE IF f = "raise" THEN [raised |-> NoException, aborted |-> FALSE, pending |-> "none"]
    ELSE [raised |-> RuntimeException(msg, cause), aborted |-> FALSE,
          pending |-> "RuntimeException"]

\* is_jvm_interrupted: the pending exception's class name is InterruptedException.
is_jvm_interrupted(pending) == pending = "InterruptedException"

\* handle_unwinded: what the fault boundary does with a caught panic whose message
\* is msg, with `pending` the exception pending in the thread. The result says
\* what was raised to the caller, whether env.fatal_error ended the process, and
\* the exception pending afterwards.
handle_unwinded(pending, msg, f) ==
    IF f = "check" THEN Fatal(pending)
    ELSE IF is_jvm_interrupted(pending)
    THEN IF f = "clear" THEN Fatal(pending)
         ELSE [raised |-> NoException, aborted |-> FALSE, pending |-> "none"]
    ELSE IF pending # "none" /\ f = "clear" THEN Fatal(pending)
    ELSE throw_runtime_exception(msg, IF pending # "none" THEN pending ELSE "null", f)

\* --------------------------------------------------- the steady-state loop

\* What the steady-state loop never touches.
notLoopVars == <<readerVars, initVars, handleVars, pullVars>>

\* The loop before loadBatches is called, over any stream.
LoopStart ==
    /\ stream \in Streams
    /\ pos = 0
    /\ ppc = "unspawned"
    /\ cur = NoBatch
    /\ inPtr = 0
    /\ payload = NoPayload
    /\ panicMsg = <<>>
    /\ taskPanicked = FALSE
    /\ ops = <<>>
    /\ cpc = "idle"
    /\ cptr = 1
    /\ mem = [d \in DescIds |-> NoBatch]
    /\ recv = <<>>
    /\ envFault = FALSE
    /\ raised = NoException
    /\ aborted = FALSE

LoopInit ==
    /\ ReaderOff
    /\ InitOff
    /\ HandleOff
    /\ PullOff
    /\ LoopStart

\* Mutant: no batch counts as empty.
IsEmptyBatch_Never(b) == FALSE

\* `if num_rows == 0 { continue; }`
IsEmptyBatch(b) == b.rows = 0

\* Mutant: the caught panic is passed on as the cause.
ErrorSignal_WithCause(msg) == RuntimeException(msg, "panic")

\* The object the error handler offers: RuntimeException(panic_message, null).
ErrorSignal(msg) == RuntimeException(msg, "null")

\* Mutant: the batch is written into the descriptors of the first request.
ExportInto_FirstSlot(m, ptr, batch) == [m EXCEPT ![1] = batch]

\* export_array_into_raw(batch, out_array, out_schema): the batch is written into
\* the descriptors the input exchange returned.
ExportInto(m, ptr, batch) == [m EXCEPT ![ptr] = batch]

\* The panic caught by catch_unwind: the task goes on in the map_err closure.
Panic(msg) ==
    /\ panicMsg' = msg
    /\ ppc' = "caught"

\* loadBatches on the caller's thread: two weak global references, then the task
\* is spawned on the handle's runtime. The caller then waits on the input channel.
LoadBatches ==
    /\ UNCHANGED notLoopVars
    /\ ~aborted
    /\ cpc = "idle"
    /\ ppc' = "pull"
    /\ cpc' = "input"
    /\ UNCHANGED <<stream, pos, cur, inPtr, payload, panicMsg, taskPanicked, ops,
                   cptr, mem, recv, envFault, raised, aborted>>

\* loadBatches when a weak global reference cannot be made: the unwrap panics on
\* the caller's thread, nothing is spawned, and handle_unwinded reports it.
LoadBatchesFault ==
    /\ UNCHANGED notLoopVars
    /\ ~aborted
    /\ cpc = "idle"
    /\ \E p \in PendingKinds, f \in ReportFaults :
         LET h == handle_unwinded(p, MsgUnwrap("weak_global_ref"), f) IN
           /\ raised' = h.raised
           /\ aborted' = h.aborted
           /\ cpc' = IF h.aborted THEN "idle"
                     ELSE IF h.raised.kind = "exception" THEN "failed"
                     ELSE "input"
    /\ envFault' = TRUE
    /\ UNCHANGED <<stream, pos, ppc, cur, inPtr, payload, panicMsg, taskPanicked,
                   ops, cptr, mem, recv>>

\* Mutant: the task goes round the loop without waiting for the caller.
PullBatch_NoWait ==
    /\ UNCHANGED notLoopVars
    /\ ~aborted
    /\ ppc = "pull"
    /\ pos < Len(stream)
    /\ stream[pos + 1].kind = "batch"
    /\ ~IsEmptyBatch(stream[pos + 1])
    /\ pos' = pos + 1
    /\ cur' = stream[pos + 1]
    /\ ppc' = "pull"
    /\ UNCHANGED <<stream, inPtr, payload, panicMsg, taskPanicked, ops, cpc, cptr,
                   mem, recv, envFault, raised, aborted>>

\* stream.next().await yields a batch with rows.
PullBatch ==
    /\ UNCHANGED notLoopVars
    /\ ~aborted
    /\ ppc = "pull"
    /\ pos < Len(stream)
    /\ stream[pos + 1].kind = "batch"
    /\ ~IsEmptyBatch(stream[pos + 1])
    /\ pos' = pos + 1
    /\ cur' = stream[pos + 1]
    /\ ppc' = "in_wait"
    /\ UNCHANGED <<stream, inPtr, payload, panicMsg, taskPanicked, ops, cpc, cptr,
                   mem, recv, envFault, raised, aborted>>

\* stream.next().await yields a batch of zero rows: continue.
PullEmpty ==
    /\ UNCHANGED notLoopVars
    /\ ~aborted
    /\ ppc = "pull"
    /\ pos < Len(stream)
    /\ stream[pos + 1].kind = "batch"
    /\ IsEmptyBatch(stream[pos + 1])
    /\ pos' = pos + 1
    /\ UNCHANGED <<stream, ppc, cur, inPtr, payload, panicMsg, taskPanicked, ops,
                   cpc, cptr, mem, recv, envFault, raised, aborted>>

\* stream.next().await yields Err(e): panic!("stream.next() error: {:?}", e).
PullError ==
    /\ UNCHANGED notLoopVars
    /\ ~aborted
    /\ ppc = "pull"
    /\ pos < Len(stream)
    /\ stream[pos + 1].kind = "err"
    /\ pos' = pos + 1
    /\ Panic(MsgStreamError(stream[pos + 1]))
    /\ UNCHANGED <<stream, cur, inPtr, payload, taskPanicked, ops, cpc, cptr, mem,
                   recv, envFault, raised, aborted>>

\* Mutant: at the end of the stream the input exchanger is not drained.
PullEnd_NoDrain ==
    /\ UNCHANGED notLoopVars
    /\ ~aborted
    /\ ppc = "pull"
    /\ pos = Len(stream)
    /\ ppc' = "eos_box"
    /\ UNCHANGED <<stream, pos, cur, inPtr, payload, panicMsg, taskPanicked, ops,
                   cpc, cptr, mem, recv, envFault, raised, aborted>>

\* stream.next().await yields None: the while loop ends.
PullEnd ==
    /\ UNCHANGED notLoopVars
    /\ ~aborted
    /\ ppc = "pull"
    /\ pos = Len(stream)
    /\ ppc' = "eos_in"
    /\ UNCHANGED <<stream, pos, cur, inPtr, payload, panicMsg, taskPanicked, ops,
                   cpc, cptr, mem, recv, envFault, raised, aborted>>

\* The rendezvous on the input exchanger: the task offers null and receives the
\* caller's (schema_ptr, array_ptr); the caller goes on to the output exchanger.
ExchangeInput ==
    /\ UNCHANGED notLoopVars
    /\ ~aborted
    /\ ppc \in {"in_wait", "eos_in"}
    /\ cpc = "input"
    /\ inPtr' = cptr
    /\ ops' = Append(ops, [chan |-> "in", sent |-> NoPayload, got |-> cptr])
    /\ ppc' = IF ppc = "in_wait" THEN "export" ELSE "eos_box"
    /\ cpc' = "output"
    /\ UNCHANGED <<stream, pos, cur, payload, panicMsg, taskPanicked, cptr, mem,
                   recv, envFault, raised, aborted>>

\* The task's exchange on the input exchanger throws: unwrap panics.
InputExchangeFault ==
    /\ UNCHANGED notLoopVars
    /\ ~aborted
    /\ ppc \in {"in_wait", "eos_in"}
    /\ Panic(MsgUnwrap("exchange"))
    /\ envFault' = TRUE
    /\ UNCHANGED <<stream, pos, cur, inPtr, payload, taskPanicked, ops, cpc, cptr,
                   mem, recv, raised, aborted>>

\* Tuple2._1/_2, longValue, and export_array_into_raw into the caller's memory.
Export ==
    /\ UNCHANGED notLoopVars
    /\ ~aborted
    /\ ppc = "export"
    /\ mem' = ExportInto(mem, inPtr, cur)
    /\ ppc' = "box"
    /\ UNCHANGED <<stream, pos, cur, inPtr, payload, panicMsg, taskPanicked, ops,
                   cpc, cptr, recv, envFault, raised, aborted>>

\* One of those calls fails before anything is written.
ExportFault ==
    /\ UNCHANGED notLoopVars
    /\ ~aborted
    /\ ppc = "export"
    /\ \E m \in {MsgUnwrap("tuple"), MsgExport} : Panic(m)
    /\ envFault' = TRUE
    /\ UNCHANGED <<stream, pos, cur, inPtr, payload, taskPanicked, ops, cpc, cptr,
                   mem, recv, raised, aborted>>

\* jni_bridge_new_object!(env, JavaBoolean, JNI_TRUE / JNI_FALSE).
NewBoolean ==
    /\ UNCHANGED notLoopVars
    /\ ~aborted
    /\ ppc \in {"box", "eos_box"}
    /\ payload' = JavaBoolean(ppc = "box")
    /\ ppc' = "out_wait"
    /\ UNCHANGED <<stream, pos, cur, inPtr, panicMsg, taskPanicked, ops, cpc, cptr,
                   mem, recv, envFault, raised, aborted>>

NewBooleanFault ==
    /\ UNCHANGED notLoopVars
    /\ ~aborted
    /\ ppc \in {"box", "eos_box"}
    /\ Panic(MsgUnwrap("new_object"))
    /\ envFault' = TRUE
    /\ UNCHANGED <<stream, pos, cur, inPtr, payload, taskPanicked, ops, cpc, cptr,
                   mem, recv, raised, aborted>>

\* What the caller does with the object it receives from the output exchanger:
\* true: import the batch from its descriptors and request the next item;
\* false: end of stream; a throwable: the error.
CallerReceives(p) ==
    IF p.kind = "bool" /\ p.val
    THEN /\ recv' = Append(recv, mem[cptr])
         /\ cptr' = cptr + 1
         /\ cpc' = "input"
    ELSE /\ recv' = Append(recv, IF p.kind = "bool" THEN EndOfStream ELSE p)
         /\ cptr' = cptr
         /\ cpc' = "done"

\* Where the task goes after its output exchange returned: back to the loop head
\* after `true`; to its end after `false`; after the error signal the trailing
\* unwrap() meets Err(Ok(())) and the task ends in a panic.
AfterOutput(p) ==
    IF p.kind = "bool" /\ p.val
    THEN /\ ppc' = "pull"
         /\ taskPanicked' = taskPanicked
    ELSE /\ ppc' = "done"
         /\ taskPanicked' = (p.kind = "exception")

\* The rendezvous on the output exchanger.
ExchangeOutput ==
    /\ UNCHANGED notLoopVars
    /\ ~aborted
    /\ ppc = "out_wait"
    /\ cpc = "output"
    /\ ops' = Append(ops, [chan |-> "out", sent |-> payload, got |-> 0])
    /\ CallerReceives(payload)
    /\ AfterOutput(payload)
    /\ cur' = NoBatch
    /\ UNCHANGED <<stream, pos, inPtr, payload, panicMsg, mem, envFault, raised,
                   aborted>>

\* The task's exchange of true / false on the output exchanger throws.
OutputExchangeFault ==
    /\ UNCHANGED notLoopVars
    /\ ~aborted
    /\ ppc = "out_wait"
    /\ payload.kind = "bool"
    /\ Panic(MsgUnwrap("exchange"))
    /\ envFault' = TRUE
    /\ UNCHANGED <<stream, pos, cur, inPtr, payload, taskPanicked, ops, cpc, cptr,
                   mem, recv, raised, aborted>>

\* The map_err closure: the error signal is built and offered to the output
\* exchanger.
SendError ==
    /\ UNCHANGED notLoopVars
    /\ ~aborted
    /\ ppc = "caught"
    /\ payload' = ErrorSignal(panicMsg)
    /\ ppc' = "out_wait"
    /\ UNCHANGED <<stream, pos, cur, inPtr, panicMsg, taskPanicked, ops, cpc, cptr,
                   mem, recv, envFault, raised, aborted>>

\* new_string / new_object of the error signal fails: the closure returns Err,
\* unwrap() panics, the task ends, nothing was offered.
BuildErrorFault ==
    /\ UNCHANGED notLoopVars
    /\ ~aborted
    /\ ppc = "caught"
    /\ ppc' = "done"
    /\ taskPanicked' = TRUE
    /\ envFault' = TRUE
    /\ UNCHANGED <<stream, pos, cur, inPtr, payload, panicMsg, ops, cpc, cptr, mem,
                   recv, raised, aborted>>

\* The exchange of the error signal throws: the closure returns Err, unwrap()
\* panics, the task ends.
ErrorExchangeFault ==
    /\ UNCHANGED notLoopVars
    /\ ~aborted
    /\ ppc = "out_wait"
    /\ payload.kind = "exception"
    /\ ppc' = "done"
    /\ taskPanicked' = TRUE
    /\ envFault' = TRUE
    /\ UNCHANGED <<stream, pos, cur, inPtr, payload, panicMsg, ops, cpc, cptr, mem,
                   recv, raised, aborted>>

LoopNext ==
    \/ LoadBatches
    \/ LoadBatchesFault
    \/ PullBatch
    \/ PullEmpty
    \/ PullError
    \/ PullEnd
    \/ ExchangeInput
    \/ InputExchangeFault
    \/ Export
    \/ ExportFault
    \/ NewBoolean
    \/ NewBooleanFault
    \/ ExchangeOutput
    \/ OutputExchangeFault
    \/ SendError
    \/ BuildErrorFault
    \/ ErrorExchangeFault

Spec == LoopInit /\ [][LoopNext]_vars

\* The steps the program takes when nothing fails.
LoopProgress ==
    \/ LoadBatches
    \/ PullBatch
    \/ PullEmpty
    \/ PullError
    \/ PullEnd
    \/ ExchangeInput
    \/ Export
    \/ NewBoolean
    \/ ExchangeOutput
    \/ SendError

\* The scheduler runs whatever can run: the caller's thread and the worker thread
\* take their next step when one is enabled. No fault is ever bound to happen.
FairSpec == Spec /\ WF_vars(LoopProgress)

\* ------------------------------------------------------ the segment reader

\* What the segment reader never touches.
notReaderVars == <<loopVars, initVars, handleVars, pullVars>>

\* ShuffleReaderStream::new: no FileReader yet.
ReaderInit ==
    /\ LoopOff
    /\ InitOff
    /\ HandleOff
    /\ PullOff
    /\ segs \in SegmentSeqs
    /\ segPos = 0
    /\ arrow_file_reader = NoReader
    /\ rpc = "idle"
    /\ zdata_read_bytes = 0
    /\ chanPos = 0
    /\ out = <<>>
    /\ opened = 0

\* Mutant: the FileReader is taken to be exhausted one batch early.
CursorHasNext_SkipsLast(r) == r.seg > 0 /\ r.at + 1 < Len(segs[r.seg].items)

\* `if let Some(arrow_file_reader) = ... { if let Some(record_batch) = arrow_file_reader.next()`
CursorHasNext(r) == r.seg > 0 /\ r.at < Len(segs[r.seg].items)

\* Mutant: the test of hasNext() lets an exhausted iterator through.
HasNext_OffByOne(p) == p <= Len(segs)

\* ScalaIterator(segments).hasNext()
HasNext(p) == p < Len(segs)

\* What FileReader::next() yields for item j of segment k.
CursorItem(k, j) ==
    IF segs[k].items[j] = "ok" THEN ReadyBatch(k, j) ELSE ReadyErr("ArrowError", k)

\* poll_next has been called, or has called itself after next_segment() == Ok(true).
InPoll == (rpc = "idle" /\ Len(out) < MaxPolls) \/ rpc = "enter"

\* poll_next: the open FileReader has a next item, which is the poll's result.
YieldFromCursor ==
    /\ UNCHANGED notReaderVars
    /\ InPoll
    /\ CursorHasNext(arrow_file_reader)
    /\ out' = Append(out, CursorItem(arrow_file_reader.seg, arrow_file_reader.at + 1))
    /\ arrow_file_reader' = [arrow_file_reader EXCEPT !.at = @ + 1]
    /\ rpc' = "idle"
    /\ UNCHANGED <<segs, segPos, zdata_read_bytes, chanPos, opened>>

\* Mutant: next_segment returns Ok(false) without `self.arrow_file_reader = None`.
EndOfSegments_KeepsReader ==
    /\ UNCHANGED notReaderVars
    /\ InPoll
    /\ ~CursorHasNext(arrow_file_reader)
    /\ ~HasNext(segPos)
    /\ arrow_file_reader' = arrow_file_reader
    /\ out' = Append(out, ReadyNone)
    /\ rpc' = "idle"
    /\ UNCHANGED <<segs, segPos, zdata_read_bytes, chanPos, opened>>

\* poll_next -> next_segment: hasNext() is false; the FileReader is dropped and
\* the poll's result is Ready(None).
EndOfSegments ==
    /\ UNCHANGED notReaderVars
    /\ InPoll
    /\ ~CursorHasNext(arrow_file_reader)
    /\ ~HasNext(segPos)
    /\ arrow_file_reader' = NoReader
    /\ out' = Append(out, ReadyNone)
    /\ rpc' = "idle"
    /\ UNCHANGED <<segs, segPos, zdata_read_bytes, chanPos, opened>>

\* poll_next -> next_segment: hasNext() is true; next() returns the channel (it
\* throws on an iterator that has no more, which `?` returns as the poll's
\* result), size() its length, and the read loop starts on an empty zdata.
NextChannel ==
    /\ UNCHANGED notReaderVars
    /\ InPoll
    /\ ~CursorHasNext(arrow_file_reader)
    /\ HasNext(segPos)
    /\ IF segPos < Len(segs)
       THEN /\ segPos' = segPos + 1
            /\ zdata_read_bytes' = 0
            /\ chanPos' = 0
            /\ rpc' = "reading"
            /\ out' = out
       ELSE /\ out' = Append(out, ReadyErr("NoSuchElementException", segPos))
            /\ rpc' = "idle"
            /\ UNCHANGED <<segPos, zdata_read_bytes, chanPos>>
    /\ UNCHANGED <<segs, arrow_file_reader, opened>>

Min(a, b) == IF a < b THEN a ELSE b

\* `while zdata_read_bytes < len`
ReadLoopRuns == rpc = "reading" /\ zdata_read_bytes < segs[segPos].len

\* read(buf) returns n > 0 bytes: no more than the buffer has room for, no more
\* than the channel has left.
ReadBytes ==
    /\ UNCHANGED notReaderVars
    /\ ReadLoopRuns
    /\ chanPos < segs[segPos].supply
    /\ \E n \in 1..Min(segs[segPos].len - zdata_read_bytes, segs[segPos].supply - chanPos) :
         /\ zdata_read_bytes' = zdata_read_bytes + n
         /\ chanPos' = chanPos + n
    /\ UNCHANGED <<segs, segPos, arrow_file_reader, rpc, out, opened>>

\* read(buf) returns -1: Err(IoError("unexpected EOF")) is the poll's result.
ReadEof ==
    /\ UNCHANGED notReaderVars
    /\ ReadLoopRuns
    /\ chanPos = segs[segPos].supply
    /\ segs[segPos].tail = "eof"
    /\ out' = Append(out, ReadyErr("unexpected EOF", segPos))
    /\ rpc' = "idle"
    /\ UNCHANGED <<segs, segPos, arrow_file_reader, zdata_read_bytes, chanPos, opened>>

\* read(buf) throws: `?` returns the error, which is the poll's result.
ReadThrows ==
    /\ UNCHANGED notReaderVars
    /\ ReadLoopRuns
    /\ chanPos = segs[segPos].supply
    /\ segs[segPos].tail = "ioerror"
    /\ out' = Append(out, ReadyErr("IOException", segPos))
    /\ rpc' = "idle"
    /\ UNCHANGED <<segs, segPos, arrow_file_reader, zdata_read_bytes, chanPos, opened>>

\* read(buf) returns 0: zdata_read_bytes += 0, and the loop goes round again.
ReadZero ==
    /\ UNCHANGED notReaderVars
    /\ ReadLoopRuns
    /\ chanPos = segs[segPos].supply
    /\ segs[segPos].tail = "zero"
    /\ zdata_read_bytes' = zdata_read_bytes + 0
    /\ UNCHANGED <<segs, segPos, arrow_file_reader, rpc, chanPos, out, opened>>

\* The read loop is over: zstd decompresses zdata and FileReader::try_new parses
\* the container; the new FileReader replaces the old one, next_segment returns
\* Ok(true) and poll_next calls itself.
OpenSegment ==
    /\ UNCHANGED notReaderVars
    /\ rpc = "reading"
    /\ ~ReadLoopRuns
    /\ segs[segPos].fmt = "ok"
    /\ arrow_file_reader' = FileReader(segPos)
    /\ opened' = opened + 1
    /\ rpc' = "enter"
    /\ UNCHANGED <<segs, segPos, zdata_read_bytes, chanPos, out>>

\* Decompression or FileReader::try_new fails: `?` returns the error, which is
\* the poll's result; arrow_file_reader keeps what it held.
DecodeFails ==
    /\ UNCHANGED notReaderVars
    /\ rpc = "reading"
    /\ ~ReadLoopRuns
    /\ segs[segPos].fmt # "ok"
    /\ out' = Append(out, ReadyErr(IF segs[segPos].fmt = "badz" THEN "zstd" ELSE "ArrowError",
                                   segPos))
    /\ rpc' = "idle"
    /\ UNCHANGED <<segs, segPos, arrow_file_reader, zdata_read_bytes, chanPos, opened>>

\* The steps inside one poll.
ReadSteps ==
    \/ ReadBytes
    \/ ReadEof
    \/ ReadThrows
    \/ ReadZero
    \/ OpenSegment
    \/ DecodeFails

ReaderNext ==
    \/ YieldFromCursor
    \/ EndOfSegments
    \/ NextChannel
    \/ ReadBytes
    \/ ReadEof
    \/ ReadThrows
    \/ ReadZero
    \/ OpenSegment
    \/ DecodeFails

ReaderSpec == ReaderInit /\ [][ReaderNext]_vars

\* A poll that has begun goes on running; nobody is bound to poll again.
FairReaderSpec == ReaderSpec /\ WF_vars(ReadSteps)

\* ------------------------------------------------- claims on the loop

IsPrefix(a, b) == Len(a) <= Len(b) /\ SubSeq(b, 1, Len(a)) = a

HasRows(b) == b.kind = "batch" /\ b.rows > 0
NonEmptyBatches(s) == SelectSeq(s, HasRows)
HasError(s) == \E i \in 1..Len(s) : s[i].kind = "err"

IsTerminalOp(x) == x.chan = "out" /\ ~(x.sent.kind = "bool" /\ x.sent.val)
IsInputOp(x) == x.chan = "in"
IsOutputOp(x) == x.chan = "out"
TerminalOps(o) == SelectSeq(o, IsTerminalOp)

\* The stream has yielded an error as its latest item.
HitError == pos > 0 /\ stream[pos].kind = "err"

\* C1: for a stream without errors and a run without JNI faults, what the caller
\* has received is always a prefix of (the stream's non-empty batches, in stream
\* order, then one end-of-stream signal), and it is all of that once the caller
\* or the task is done.
C1_NonEmptyBatchesThenEos ==
    (~HasError(stream) /\ ~envFault) =>
        LET expected == NonEmptyBatches(stream) \o <<EndOfStream>> IN
          /\ IsPrefix(recv, expected)
          /\ (cpc = "done" => recv = expected)
          /\ (ppc = "done" => cpc = "done")

\* A finished run over a stream holding two batches with rows and an empty one.
C1_Witness ==
    /\ cpc = "done"
    /\ ppc = "done"
    /\ ~envFault
    /\ ~HasError(stream)
    /\ Len(NonEmptyBatches(stream)) = 2
    /\ Len(stream) = 3
    /\ Len(recv) = 3

\* C2: every batch written to the caller's descriptors or received by the caller
\* has rows, and the step that pulls a zero-row batch leaves the task at the loop
\* head with no exchange performed, the caller's memory untouched and nothing
\* delivered.
C2_EmptyBatchesSkipped ==
    /\ [](/\ \A i \in 1..Len(recv) : recv[i].kind \in {"batch", "none"} => recv[i].rows > 0
          /\ \A d \in DescIds : mem[d].kind = "batch" => mem[d].rows > 0
          /\ ppc \in {"in_wait", "export", "box"} => cur.rows > 0)
    /\ [][(/\ ppc = "pull"
           /\ pos' = pos + 1
           /\ stream[pos'].kind = "batch"
           /\ stream[pos'].rows = 0)
          => (/\ ppc' = "pull"
              /\ ops' = ops
              /\ mem' = mem
              /\ recv' = recv
              /\ cpc' = cpc)]_vars

\* A zero-row batch has been skipped and the batches around it delivered.
C2_Witness ==
    /\ \E i \in 1..pos : stream[i].kind = "batch" /\ stream[i].rows = 0
    /\ stream[1].kind = "batch" /\ stream[1].rows > 0
    /\ cpc = "done"
    /\ Len(recv) = 3

\* C3 as stated: at most one terminal exchange (end of stream or error) is ever
\* performed, nothing follows it, and a task that has ended has performed one.
C3_ExactlyOneTerminal ==
    /\ Len(TerminalOps(ops)) <= 1
    /\ (Len(TerminalOps(ops)) = 1 => IsTerminalOp(ops[Len(ops)]) /\ ppc = "done")
    /\ (ppc = "done" => Len(TerminalOps(ops)) = 1)

\* C4: once the stream has yielded an error (and no JNI call fails), the task
\* pulls nothing more; it leaves the loop for the error handler, where the one
\* thing it offers to the output exchanger is RuntimeException(message, null);
\* it performs no input exchange for the error item, and no batch follows: the
\* exchanges performed are one input and one output exchange for each batch with
\* rows before the error, plus the exchange of the error signal once it is done.
C4_StreamErrorSignalled ==
    /\ []((HitError /\ ~envFault) =>
            LET before == Len(NonEmptyBatches(SubSeq(stream, 1, pos - 1))) IN
              /\ ppc \in {"caught", "out_wait", "done"}
              /\ panicMsg = <<"stream.next() error", stream[pos].id>>
              /\ (ppc # "caught" =>
                    payload = [kind |-> "exception", msg |-> panicMsg, cause |-> "null"])
              /\ Len(SelectSeq(ops, IsInputOp)) = before
              /\ Len(SelectSeq(ops, IsOutputOp)) = before + (IF ppc = "done" THEN 1 ELSE 0)
              /\ (ppc = "done" => ops[Len(ops)].sent = payload)
              /\ Len(SelectSeq(recv, HasRows)) = before)
    /\ [][HitError => (pos' = pos /\ ppc' # "pull" /\ cur' = cur)]_vars

\* The stream's second item is an error, after a delivered batch: the task is
\* offering the error signal.
C4_Witness ==
    /\ HitError
    /\ ~envFault
    /\ pos = 2
    /\ pos < Len(stream)
    /\ ppc = "out_wait"
    /\ payload.kind = "exception"
    /\ Len(recv) = 1

\* C5 as stated: the caller comes to hold a terminal signal, and task and caller
\* never block each other. The stream is finite, so this is: as long as no JNI
\* call has failed and the caller holds no terminal signal, the caller or the
\* task can take its next step.
C5_CallerGetsTerminal ==
    \/ cpc \in {"done", "failed"}
    \/ envFault
    \/ ENABLED <<LoopProgress>>_vars

\* ------------------------------------------- claims on the segment reader

\* The segment reads in full, decompresses, parses, and each of its batches decodes.
WellFormed(sg) ==
    /\ sg.supply = sg.len
    /\ sg.fmt = "ok"
    /\ \A j \in 1..Len(sg.items) : sg.items[j] = "ok"

\* The batches of segment k, in the container's order.
SegmentBatches(ss, k) == [j \in 1..Len(ss[k].items) |-> [kind |-> "batch", seg |-> k, idx |-> j]]

RECURSIVE BatchesUpTo(_, _)
\* The batches of the first k segments, in sequence order.
BatchesUpTo(ss, k) ==
    IF k = 0 THEN <<>> ELSE BatchesUpTo(ss, k - 1) \o SegmentBatches(ss, k)

\* C6: over a sequence of well-formed segments, poll i yields batch i of the
\* concatenation of the segments' batch lists, and every poll after the last
\* batch (and none before) signals end-of-stream.
C6_SegmentsRoundTrip ==
    (\A k \in 1..Len(segs) : WellFormed(segs[k])) =>
        LET all == BatchesUpTo(segs, Len(segs)) IN
          \A i \in 1..Len(out) : out[i] = IF i <= Len(all) THEN all[i] ELSE [kind |-> "eos"]

\* An empty segment, then one of two batches, polled to the end.
C6_Witness ==
    /\ Len(segs) = 2
    /\ WellFormed(segs[1]) /\ WellFormed(segs[2])
    /\ segs[1].items = <<>>
    /\ Len(segs[2].items) = 2
    /\ Len(out) = 3
    /\ out[3].kind = "eos"
    /\ out[1].kind = "batch"

\* C7: over an empty segment sequence every poll, the first included, signals
\* end-of-stream at once; no batch is produced and no FileReader is opened.
C7_EmptySequenceEnds ==
    segs = <<>> =>
        /\ \A i \in 1..Len(out) : out[i] = [kind |-> "eos"]
        /\ opened = 0
        /\ arrow_file_reader = [seg |-> 0, at |-> 0]
        /\ rpc = "idle"
        /\ segPos = 0

\* The first poll over an empty sequence has returned.
C7_Witness == segs = <<>> /\ Len(out) = 1

\* C8 as stated: the read loop cannot run forever, that is, whenever it runs, a
\* step that reads bytes or ends the loop can be taken (each such step adds to
\* zdata_read_bytes, which len bounds, or leaves the loop); and a FileReader is
\* only ever opened over a segment whose bytes were all supplied.
C8_ReadLoopEnds ==
    /\ (rpc = "reading" => ENABLED <<ReadSteps>>_vars)
    /\ (arrow_file_reader.seg > 0 =>
            segs[arrow_file_reader.seg].supply = segs[arrow_file_reader.seg].len)

\* C9 as stated: after a poll has yielded an error, no later poll yields a batch
\* or a second error.
C9_ErrorAbortsStream ==
    \A i, j \in 1..Len(out) : (i < j /\ out[i].kind = "err") => out[j].kind = "eos"

\* ------------------------------------------------------------- initNative

\* What the runtime initialization never touches.
notInitVars == <<loopVars, readerVars, handleVars, pullVars>>

\* The arguments of initNative.
InitArgs ==
    [batch_size : {1, 2}, native_memory : {1}, memory_fraction : {"0.6"}, dirs : {"/tmp"}]

\* The JNI step of initNative that panics, if any: JavaClasses::init, or
\* env.get_string(tmp_dirs).unwrap().
InitFaults == {"none", "classes", "dirs"}

MsgInitTwice == <<"Calling initNative() more than once">>

\* Before any call: the statics hold None.
NativeInit ==
    /\ LoopOff
    /\ ReaderOff
    /\ HandleOff
    /\ PullOff
    /\ LOGGING_INIT = "None"
    /\ java_classes = FALSE
    /\ SESSIONCTX = NoSessionCtx
    /\ initLog = <<>>

\* Mutant: the guard never fires.
AlreadyInitialized_Never == FALSE

\* `LOGGING_INIT.lock().unwrap().is_some()`
AlreadyInitialized == LOGGING_INIT # "None"

\* init_logging(): sets up the logger and fills LOGGING_INIT.
init_logging == "Some"

\* init_session_ctx(native_memory, memory_fraction, batch_size, dirs): builds the
\* session context and stores it in SESSIONCTX.
init_session_ctx(a) == a

\* The process is gone once a call has ended in env.fatal_error.
ProcessAborted == \E i \in 1..Len(initLog) : initLog[i].aborted

\* One call of initNative, from entry to return: the guard, the three
\* initializations in order, and handle_unwinded for a panic caught on the way.
\* A panic of the guard is caught with no exception pending (initNative has made
\* no JNI call yet); a panic of a JNI step may leave one pending.
InitNative ==
    /\ UNCHANGED notInitVars
    /\ ~ProcessAborted
    /\ Len(initLog) < MaxInitCalls
    /\ \E a \in InitArgs, step \in InitFaults, p \in PendingKinds, f \in ReportFaults :
         IF AlreadyInitialized
         THEN /\ UNCHANGED <<LOGGING_INIT, java_classes, SESSIONCTX>>
              /\ LET h == handle_unwinded("none", MsgInitTwice, f) IN
                   initLog' = Append(initLog, [args |-> a, panicked |-> TRUE, fault |-> f,
                                               raised |-> h.raised, aborted |-> h.aborted])
         ELSE /\ LOGGING_INIT' = init_logging
              /\ java_classes' = (step # "classes")
              /\ SESSIONCTX' = IF step = "none" THEN init_session_ctx(a) ELSE SESSIONCTX
              /\ IF step = "none"
                 THEN initLog' = Append(initLog, [args |-> a, panicked |-> FALSE,
                                                  fault |-> "none", raised |-> NoException,
                                                  aborted |-> FALSE])
                 ELSE LET h == handle_unwinded(p, MsgUnwrap(step), f) IN
                        initLog' = Append(initLog, [args |-> a, panicked |-> TRUE, fault |-> f,
                                                    raised |-> h.raised, aborted |-> h.aborted])

InitSpec == NativeInit /\ [][InitNative]_vars

\* --------------------------------------------------- claims on initNative

\* A call of initNative has run to its end: logging, host classes and session
\* context are all set.
InitCompleted == LOGGING_INIT = "Some" /\ java_classes /\ SESSIONCTX # NoSessionCtx

\* C10: a call of initNative made after a completed one changes nothing of the
\* runtime state, whatever its arguments; and, when the JNI calls that report
\* the panic succeed, it raises RuntimeException("Calling initNative() more than
\* once") with a null cause to the caller and the process lives on.
C10_SecondInitReported ==
    [][(InitCompleted /\ Len(initLog') = Len(initLog) + 1) =>
         /\ LOGGING_INIT' = LOGGING_INIT
         /\ java_classes' = java_classes
         /\ SESSIONCTX' = SESSIONCTX
         /\ initLog'[Len(initLog')].panicked
         /\ (initLog'[Len(initLog')].fault \notin {"check", "build", "raise"} =>
               /\ initLog'[Len(initLog')].raised =
                    [kind |-> "exception", msg |-> <<"Calling initNative() more than once">>,
                     cause |-> "null"]
               /\ ~initLog'[Len(initLog')].aborted)]_vars

\* A completed call, then a second call with other arguments, which was reported.
C10_Witness ==
    /\ Len(initLog) = 2
    /\ InitCompleted
    /\ ~initLog[1].panicked
    /\ initLog[1].args = SESSIONCTX
    /\ initLog[2].args.batch_size # SESSIONCTX.batch_size
    /\ initLog[2].raised.kind = "exception"

\* ---------------------------------------------------- one execution handle

\* What the life of a handle never touches.
notHandleVars == <<readerVars, initVars, pullVars>>

\* The runtime state a completed initNative(a) leaves behind.
InitDone(a) ==
    /\ LOGGING_INIT = init_logging
    /\ java_classes = TRUE
    /\ SESSIONCTX = init_session_ctx(a)
    /\ initLog = <<[args |-> a, panicked |-> FALSE, fault |-> "none",
                    raised |-> NoException, aborted |-> FALSE]>>

\* The streams a submitted plan yields: the life of the handle depends on whether
\* a batch has rows, not on how many, so batches here have one row or none.
HandleStreams == {s \in Streams : \A i \in 1..Len(s) : s[i].rows <= 1}

\* callNative is called on a process where initNative has completed, or has
\* never been called.
HandleInit ==
    /\ ReaderOff
    /\ (InitOff \/ InitDone([batch_size |-> 1, native_memory |-> 1,
                             memory_fraction |-> "0.6", dirs |-> "/tmp"]))
    /\ HandleOff
    /\ PullOff
    /\ LoopStart
    /\ stream \in HandleStreams

\* The process runs: env.fatal_error has not been called and no thread has crashed.
ProcessLive == ~aborted /\ worker # "crashed"

\* The step of callNative that panics, if any: TaskDefinition::decode (or the
\* byte array conversion before it), plan.try_into(), SESSIONCTX...unwrap(),
\* execution_plan.execute(), the runtime builders, JniBridge.getTaskContext.
SubmitFaults == {"none", "decode", "compile", "session", "execute", "runtime", "getTaskContext"}

\* The steps callNative gets to: the session context is unwrapped after the plan
\* is built, and panics exactly when initNative has not stored one.
StepReachable(step) ==
    IF step \in {"decode", "compile"} THEN TRUE
    ELSE IF step = "session" THEN SESSIONCTX = NoSessionCtx
    ELSE SESSIONCTX # NoSessionCtx

\* The address std::alloc::alloc returns for the BlazeIter.
BlazeIterPtr == 1

\* Mutant: the address is returned whether or not the closure panicked.
CallNativeResult_AlwaysPtr(panicked, ptr) == ptr

\* `Err(err) => { handle_unwinded(err); -1 }`, `Ok(ptr) => ptr`
CallNativeResult(panicked, ptr) == IF panicked THEN -1 ELSE ptr

\* callNative, from entry to return. Without a panic: the stream is started, the
\* one-thread runtime built, the setTaskContext task spawned on it, and BlazeIter
\* {stream, execution_plan, runtime} allocated and written. With a panic:
\* handle_unwinded, and -1 unless env.fatal_error ended the process.
CallNative ==
    /\ UNCHANGED notHandleVars
    /\ ProcessLive
    /\ cpc = "idle"
    /\ iter_ptr = 0
    /\ \E step \in SubmitFaults, p \in PendingKinds, f \in ReportFaults :
         /\ StepReachable(step)
         /\ IF step = "none"
            THEN /\ blaze_iter' = "live"
                 /\ runtime' = "running"
                 /\ ctx_task' = "queued"
                 /\ iter_ptr' = CallNativeResult(FALSE, BlazeIterPtr)
                 /\ UNCHANGED <<raised, aborted, faultLog>>
            ELSE LET h == handle_unwinded(p, MsgUnwrap(step), f) IN
                   /\ raised' = h.raised
                   /\ aborted' = h.aborted
                   /\ iter_ptr' = IF h.aborted THEN 0 ELSE CallNativeResult(TRUE, BlazeIterPtr)
                   /\ faultLog' = Append(faultLog,
                        [op |-> "callNative", step |-> step, msg |-> MsgUnwrap(step),
                         pending |-> p, fault |-> f, raised |-> h.raised,
                         aborted |-> h.aborted, pendingAfter |-> h.pending])
                   /\ UNCHANGED <<blaze_iter, runtime, ctx_task>>
    /\ UNCHANGED <<worker, pendingEx>>
    /\ UNCHANGED <<stream, pos, ppc, cur, inPtr, payload, panicMsg, taskPanicked, ops,
                   cpc, cptr, mem, recv, envFault>>

\* The loop task has been spawned and the worker has not taken it up.
LoopQueued == ppc = "pull" /\ worker = "idle"

\* The runtime's injection queue: callNative spawns the setTaskContext task before
\* it returns the handle loadBatches spawns the loop with.
InjectQueue ==
    (IF ctx_task = "queued" THEN <<"ctx">> ELSE <<>>)
        \o (IF LoopQueued THEN <<"loop">> ELSE <<>>)

\* Mutant: the worker takes the task spawned last.
NextTask_Newest(q) == q[Len(q)]

\* The worker takes the task spawned first.
NextTask(q) == Head(q)

\* The one worker thread (worker_threads(1)) is between tasks.
WorkerFree == worker = "idle" \/ (worker = "loop" /\ ppc \in {"done", "dropped"})

\* The setTaskContext task, which has no await: JniBridge.setTaskContext on the
\* worker thread; a panic is caught and throw_runtime_exception(msg, null)
\* .unwrap_or_fatal() raises it in the worker thread or ends the process.
SetTaskContext ==
    /\ UNCHANGED notHandleVars
    /\ ProcessLive
    /\ WorkerFree
    /\ InjectQueue # <<>>
    /\ NextTask(InjectQueue) = "ctx"
    /\ \E f \in {"ok", "none", "build", "raise"} :
         IF f = "ok"
         THEN /\ ctx_task' = "done"
              /\ UNCHANGED <<pendingEx, aborted, envFault>>
         ELSE LET h == throw_runtime_exception(MsgUnwrap("setTaskContext"), "null", f) IN
                /\ ctx_task' = "failed"
                /\ pendingEx' = h.pending
                /\ aborted' = h.aborted
                /\ envFault' = TRUE
    /\ UNCHANGED <<iter_ptr, blaze_iter, runtime, worker, faultLog>>
    /\ UNCHANGED <<stream, pos, ppc, cur, inPtr, payload, panicMsg, taskPanicked, ops,
                   cpc, cptr, mem, recv, raised>>

\* The worker, finding the runtime not shut down, takes up the loop task.
StartLoopTask ==
    /\ UNCHANGED notHandleVars
    /\ UNCHANGED loopVars
    /\ ProcessLive
    /\ runtime = "running"
    /\ InjectQueue # <<>>
    /\ NextTask(InjectQueue) = "loop"
    /\ worker' = "loop"
    /\ UNCHANGED <<iter_ptr, blaze_iter, runtime, ctx_task, pendingEx, faultLog>>

\* The worker, finding the runtime shut down, drops the tasks that are queued or
\* suspended at an await (the loop at `stream.next().await`) without polling them.
ShutdownDropsTasks ==
    /\ UNCHANGED notHandleVars
    /\ ProcessLive
    /\ runtime = "shutdown"
    /\ (ctx_task = "queued" \/ ppc = "pull")
    /\ ctx_task' = IF ctx_task = "queued" THEN "dropped" ELSE ctx_task
    /\ ppc' = IF ppc = "pull" THEN "dropped" ELSE ppc
    /\ UNCHANGED <<iter_ptr, blaze_iter, runtime, worker, pendingEx, faultLog>>
    /\ UNCHANGED <<stream, pos, cur, inPtr, payload, panicMsg, taskPanicked, ops, cpc,
                   cptr, mem, recv, envFault, raised, aborted>>

\* The caller holds a handle it has not torn down.
HandleLive == iter_ptr = BlazeIterPtr /\ blaze_iter = "live"

\* An exchange of the loop throws InterruptedException, which stays pending in
\* the worker thread: unwrap panics.
ExchangeInterrupted ==
    /\ UNCHANGED notHandleVars
    /\ ProcessLive
    /\ worker = "loop"
    /\ (ppc \in {"in_wait", "eos_in"} \/ (ppc = "out_wait" /\ payload.kind = "bool"))
    /\ pendingEx' = "InterruptedException"
    /\ Panic(MsgUnwrap("exchange"))
    /\ envFault' = TRUE
    /\ UNCHANGED <<iter_ptr, blaze_iter, runtime, ctx_task, worker, faultLog>>
    /\ UNCHANGED <<stream, pos, cur, inPtr, payload, taskPanicked, ops, cpc, cptr,
                   mem, recv, raised, aborted>>

\* Mutant: the runtime is left running.
shutdown_background_Noop(rt) == rt

\* Runtime::shutdown_background: signals shutdown and returns at once.
shutdown_background(rt) == "shutdown"

\* deallocIter, which the caller may call whenever it holds the handle: the
\* runtime is shut down in the background and the BlazeIter memory deallocated;
\* the caller is through with the handle.
DeallocIter ==
    /\ UNCHANGED notHandleVars
    /\ ProcessLive
    /\ HandleLive
    /\ runtime' = shutdown_background(runtime)
    /\ blaze_iter' = "freed"
    /\ cpc' = "closed"
    /\ UNCHANGED <<iter_ptr, ctx_task, worker, pendingEx, faultLog>>
    /\ UNCHANGED <<stream, pos, ppc, cur, inPtr, payload, panicMsg, taskPanicked, ops,
                   cptr, mem, recv, envFault, raised, aborted>>

\* `blaze_iter.stream.next()` through a BlazeIter that has been deallocated is
\* undefined: the read may find the memory as it was (the Pull steps), or not,
\* and the process crashes.
StaleStreamCrash ==
    /\ UNCHANGED notHandleVars
    /\ UNCHANGED loopVars
    /\ ProcessLive
    /\ worker = "loop"
    /\ ppc = "pull"
    /\ blaze_iter = "freed"
    /\ worker' = "crashed"
    /\ UNCHANGED <<iter_ptr, blaze_iter, runtime, ctx_task, pendingEx, faultLog>>

\* The worker has taken up the loop task and runs it.
OnWorker == ProcessLive /\ worker = "loop"

\* The caller may call loadBatches on the handle.
OnHandle == ProcessLive /\ HandleLive

HandleNext ==
    \/ CallNative
    \/ SetTaskContext
    \/ StartLoopTask
    \/ ShutdownDropsTasks
    \/ (OnHandle /\ LoadBatches)
    \/ (OnHandle /\ LoadBatchesFault)
    \/ (OnWorker /\ PullBatch)
    \/ (OnWorker /\ PullEmpty)
    \/ (OnWorker /\ PullError)
    \/ (OnWorker /\ PullEnd)
    \/ (OnWorker /\ ExchangeInput)
    \/ (OnWorker /\ InputExchangeFault)
    \/ (OnWorker /\ Export)
    \/ (OnWorker /\ ExportFault)
    \/ (OnWorker /\ NewBoolean)
    \/ (OnWorker /\ NewBooleanFault)
    \/ (OnWorker /\ ExchangeOutput)
    \/ (OnWorker /\ OutputExchangeFault)
    \/ (OnWorker /\ SendError)
    \/ (OnWorker /\ BuildErrorFault)
    \/ (OnWorker /\ ErrorExchangeFault)
    \/ ExchangeInterrupted
    \/ DeallocIter
    \/ StaleStreamCrash

HandleSpec == HandleInit /\ [][HandleNext]_vars

\* ------------------------------------------------- claims on the handle

\* An exchange of the loop has handed the caller an error signal.
ErrorDelivered == \E i \in 1..Len(ops) : ops[i].sent.kind = "exception"

\* The loop has performed its terminal exchange.
TerminalSent == Len(TerminalOps(ops)) > 0

\* C11: callNative returns -1 exactly when one of its steps panicked (and the
\* process was not ended by env.fatal_error, in which case it does not return);
\* when it returns -1 and the panic was not an interruption, the fault's message
\* has been raised to the caller (unless the raiseThrowable call itself failed),
\* and nothing was allocated: no BlazeIter, no runtime, no task. When it returns
\* anything else, that is the address of a BlazeIter, with its runtime and the
\* setTaskContext task, and no step has panicked.
C11_SubmitResult ==
    /\ [](/\ (iter_ptr = -1) <=> (faultLog # <<>> /\ ~aborted)
          /\ (faultLog # <<>> /\ aborted) => iter_ptr = 0
          /\ iter_ptr = -1 =>
               /\ blaze_iter = "none" /\ runtime = "none" /\ ctx_task = "none"
               /\ Len(faultLog) = 1
               /\ (faultLog[1].pending # "InterruptedException"
                      /\ faultLog[1].fault # "raise") =>
                      /\ raised.kind = "exception"
                      /\ raised.msg = <<"called Result::unwrap() on an Err value",
                                        faultLog[1].step>>
               /\ faultLog[1].pending = "InterruptedException" => raised.kind = "none"
          /\ iter_ptr \notin {0, -1} =>
               /\ faultLog = <<>>
               /\ blaze_iter \in {"live", "freed"}
               /\ runtime \in {"running", "shutdown"}
               /\ ctx_task # "none"
          /\ iter_ptr = 0 => (blaze_iter = "none" /\ runtime = "none"))
    /\ [][(iter_ptr = 0 /\ iter_ptr' \notin {0, -1}) =>
            (blaze_iter' = "live" /\ runtime' = "running" /\ ctx_task' = "queued")]_vars

\* execute() has panicked with no exception pending: -1, and the panic raised.
C11_Witness ==
    /\ iter_ptr = -1
    /\ faultLog[1].step = "execute"
    /\ faultLog[1].pending = "none"
    /\ raised.kind = "exception"
    /\ raised.cause = "null"

\* C12: once the loop has performed its terminal exchange (end of stream or the
\* error signal), deallocIter can be called and returns in one step, waiting for
\* nothing; that step raises nothing, ends no process and leaves the runtime
\* shut down; and afterwards the loop task, which has ended, touches nothing.
C12_TeardownAfterTerminal ==
    /\ []((TerminalSent /\ HandleLive /\ ProcessLive) => ENABLED <<DeallocIter>>_vars)
    /\ [][(TerminalSent /\ blaze_iter = "live" /\ blaze_iter' = "freed") =>
            /\ runtime' = "shutdown"
            /\ raised' = raised
            /\ aborted' = aborted
            /\ worker' = worker
            /\ faultLog' = faultLog
            /\ ppc = "done" /\ ppc' = "done"]_vars
    /\ []((TerminalSent /\ blaze_iter = "freed") =>
            (runtime = "shutdown" /\ ppc = "done" /\ worker = "loop" /\ ~aborted))

\* Torn down after the caller received the error signal for an export fault.
C12_Witness ==
    /\ blaze_iter = "freed"
    /\ TerminalSent
    /\ recv # <<>>
    /\ recv[Len(recv)].kind = "exception"
    /\ cpc = "closed"

\* The worker polls the handle's stream through the BlazeIter (any result of
\* `blaze_iter.stream.next()`, a crash included).
StreamAccess ==
    \/ PullBatch
    \/ PullEmpty
    \/ PullError
    \/ PullEnd
    \/ StaleStreamCrash

\* C13 as stated: the worker never polls the handle's stream once deallocIter
\* has deallocated the BlazeIter.
C13_NoAccessAfterTeardown == [][StreamAccess => blaze_iter = "live"]_vars

\* ------------------------------------------ claims on the fault boundary

\* C14 as stated, for the loop of loadBatches: every panic raised in the spawned
\* task is raised inside its catch_unwind, so the task never ends in a panic.
C14_EveryFaultCaught == ~taskPanicked

\* C15 as stated: a panic caught while an InterruptedException is pending ends
\* without an error for the caller. In callNative: the exception is cleared,
\* nothing is raised, and -1 is returned. In the loop: no error signal is handed
\* to the caller on the output exchanger.
C15_InterruptionSwallowed ==
    /\ \A i \in 1..Len(faultLog) :
         (faultLog[i].pending = "InterruptedException" /\ ~faultLog[i].aborted) =>
             /\ faultLog[i].raised = NoException
             /\ faultLog[i].pendingAfter = "none"
             /\ raised = NoException
             /\ iter_ptr = -1
    /\ pendingEx = "InterruptedException" => ~ErrorDelivered

\* C16: a panic caught by handle_unwinded with no InterruptedException pending,
\* when the JNI calls that report it succeed, raises one RuntimeException carrying
\* the panic message; an exception that was pending has been cleared and is its
\* cause, and the cause is null when none was pending; afterwards the raised
\* exception is the only one pending.
C16_RaisedWithCause ==
    \A i \in 1..Len(faultLog) :
        (faultLog[i].pending # "InterruptedException" /\ faultLog[i].fault = "none") =>
            /\ faultLog[i].raised =
                 [kind |-> "exception", msg |-> faultLog[i].msg,
                  cause |-> IF faultLog[i].pending = "none" THEN "null"
                            ELSE faultLog[i].pending]
            /\ faultLog[i].pendingAfter = "RuntimeException"
            /\ ~faultLog[i].aborted
            /\ raised = faultLog[i].raised

\* getTaskContext threw: its exception was pending when the panic was caught, and
\* is the cause of what was raised.
C16_Witness ==
    /\ faultLog # <<>>
    /\ faultLog[1].step = "getTaskContext"
    /\ faultLog[1].pending = "other"
    /\ faultLog[1].fault = "none"
    /\ raised.cause = "other"
    /\ iter_ptr = -1

\* The loop caught a panic and its task has ended without the error signal
\* having been exchanged: building or exchanging the signal failed.
LoopReportFailed == ppc = "done" /\ panicMsg # <<>> /\ ~ErrorDelivered

\* C17 as stated, for the loop: when reporting a caught panic fails, the process
\* is ended by env.fatal_error.
C17_ReportFailureAborts == LoopReportFailed => aborted

\* ----------------------------------------- claims on the loop's protocol

\* The task has completed an input exchange and not yet the output exchange
\* that answers it.
BetweenExchanges == ppc \in {"export", "box", "eos_box", "out_wait"}

\* C18: over a stream without errors, in a run where no JNI call fails, the
\* task's exchanges alternate input, output, input, ... starting with input, and
\* the task only ever waits on the exchanger whose turn it is; between an input
\* exchange and its output exchange it works on the descriptors that exchange
\* returned, and the batch it offers `true` for is the one written into them;
\* the output exchanges carry `true` once for each batch with rows and then
\* `false` once, after an input exchange of its own, and nothing follows.
C18_StrictAlternation ==
    (~HasError(stream) /\ ~envFault) =>
        LET n == Len(NonEmptyBatches(stream)) IN
          /\ \A i \in 1..Len(ops) :
               /\ ops[i].chan = (IF i % 2 = 1 THEN "in" ELSE "out")
               /\ ops[i].chan = "out" =>
                    ops[i].sent = [kind |-> "bool", val |-> (i \div 2) <= n]
               /\ ops[i].chan = "in" => ops[i].sent = [kind |-> "nothing"]
          /\ Len(ops) <= 2 * (n + 1)
          /\ ppc \in {"in_wait", "eos_in"} => Len(ops) % 2 = 0
          /\ BetweenExchanges =>
               /\ Len(ops) % 2 = 1
               /\ ops[Len(ops)].got = inPtr
               /\ inPtr = cptr
          /\ (ppc = "box" \/ (ppc = "out_wait" /\ payload = [kind |-> "bool", val |-> TRUE])) =>
               /\ mem[inPtr] = cur
               /\ cur.rows > 0
               /\ \A d \in DescIds : d > inPtr => mem[d] = NoBatch
          /\ ppc = "eos_in" => Len(ops) = 2 * n
          /\ ppc = "done" =>
               /\ Len(ops) = 2 * (n + 1)
               /\ ops[Len(ops)].sent = [kind |-> "bool", val |-> FALSE]

\* Two batches with rows delivered, then the final pair of exchanges.
C18_Witness ==
    /\ ~HasError(stream)
    /\ ~envFault
    /\ Len(NonEmptyBatches(stream)) = 2
    /\ ppc = "done"
    /\ Len(ops) = 6
    /\ ops[5].chan = "in"
    /\ ops[6].sent = JavaBoolean(FALSE)

\* Batches with rows the task has pulled from the stream so far.
PulledBatches == Len(NonEmptyBatches(SubSeq(stream, 1, pos)))

\* Batches the caller has received so far.
ReceivedBatches == Len(SelectSeq(recv, HasRows))

\* C19: in every state, faults or not, the task has pulled at most one batch
\* with rows more than the caller has received: the one it holds waiting for
\* its exchanges, or the one a fault made it give up; at the loop head it holds
\* none, and every pull from the stream is made while no batch is waiting.
C19_OneInFlight ==
    /\ [](/\ PulledBatches - ReceivedBatches \in {0, 1}
          /\ cur # NoBatch => PulledBatches - ReceivedBatches = 1
          /\ PulledBatches - ReceivedBatches = 1 => (cur # NoBatch \/ panicMsg # <<>>)
          /\ ppc = "pull" => (cur = NoBatch /\ PulledBatches = ReceivedBatches))
    /\ [][pos' # pos => (PulledBatches = ReceivedBatches /\ cur = NoBatch /\ pos' = pos + 1)]_vars

\* The task holds the stream's second batch, the first being delivered.
C19_Witness ==
    /\ PulledBatches = 2
    /\ ReceivedBatches = 1
    /\ ppc = "in_wait"
    /\ cur.id = 2
    /\ pos < Len(stream)

\* ------------------------------------------------ claims on the worker

\* C20: the setTaskContext task callNative spawns has run to its end on the
\* worker thread (JniBridge.setTaskContext has returned, or has thrown and been
\* reported there) before the worker takes up the loop task, and so before any
\* poll of the handle's stream; it is never overtaken, dropped or left queued
\* once the loop runs.
C20_ContextBeforeFirstPull ==
    /\ [](worker = "loop" => ctx_task \in {"done", "failed"})
    /\ [](pos > 0 => ctx_task \in {"done", "failed"})
    /\ [][StreamAccess => ctx_task \in {"done", "failed"}]_vars
    /\ [][ctx_task' # ctx_task => (ppc \in {"unspawned", "pull", "dropped"} /\ pos = 0)]_vars

\* The context was set, and the loop has pulled two items since.
C20_Witness ==
    /\ ctx_task = "done"
    /\ worker = "loop"
    /\ pos = 2
    /\ blaze_iter = "live"

\* ------------------------------------- claims on the reader's end-of-stream

\* Some poll of the segment reader has returned Ready(None).
EosSignalled == \E i \in 1..Len(out) : out[i] = ReadyNone

\* C21: once the segment reader has signalled end-of-stream, it holds no
\* FileReader and no poll is left half-way; a further poll can always be made
\* and returns Ready(None) again, in one step, opening nothing and never
\* yielding a batch or an error.
C21_EosIsTerminal ==
    /\ [](EosSignalled =>
            /\ arrow_file_reader = NoReader
            /\ rpc = "idle"
            /\ \A i, j \in 1..Len(out) : (i < j /\ out[i] = ReadyNone) => out[j] = ReadyNone
            /\ (Len(out) < MaxPolls => ENABLED <<EndOfSegments>>_vars))
    /\ [][EosSignalled =>
            /\ out' = Append(out, ReadyNone)
            /\ arrow_file_reader' = NoReader
            /\ UNCHANGED <<segPos, opened, zdata_read_bytes, chanPos>>]_vars

\* A FileReader was opened and yielded a batch, the sequence ran out, and a
\* poll after the one that signalled end-of-stream has returned.
C21_Witness ==
    /\ opened > 0
    /\ Len(out) >= 3
    /\ out[1].kind = "batch"
    /\ out[Len(out) - 1] = ReadyNone
    /\ out[Len(out)] = ReadyNone
    /\ arrow_file_reader = NoReader

\* ------------------------------------ loadBatches called again on a handle

\* loadBatches called on a handle it was already called on: like every call it
\* makes its two weak references and spawns one more loop task over the same
\* BlazeIter on the handle's runtime. The caller may do so before any of its
\* exchanges or after it has received a terminal signal; having called, it goes
\* on (or starts again) exchanging on the input channel, then the output channel.
LoadBatchesAgain ==
    /\ UNCHANGED <<readerVars, initVars, handleVars>>
    /\ ~aborted
    /\ cpc \in {"input", "output", "done"}
    /\ more_calls < MaxMoreCalls
    /\ more_calls' = more_calls + 1
    /\ more_tasks' = more_tasks + 1
    /\ cpc' = IF cpc = "done" THEN "input" ELSE cpc
    /\ UNCHANGED <<stream, pos, ppc, cur, inPtr, payload, panicMsg, taskPanicked,
                   ops, cptr, mem, recv, envFault, raised, aborted>>

\* The same call when a weak global reference cannot be made: nothing is
\* spawned, and handle_unwinded reports the panic on the caller's thread.
LoadBatchesAgainFault ==
    /\ UNCHANGED <<readerVars, initVars, handleVars>>
    /\ ~aborted
    /\ cpc \in {"input", "output", "done"}
    /\ more_calls < MaxMoreCalls
    /\ more_calls' = more_calls + 1
    /\ more_tasks' = more_tasks
    /\ \E p \in PendingKinds, f \in ReportFaults :
         LET h == handle_unwinded(p, MsgUnwrap("weak_global_ref"), f) IN
           /\ raised' = h.raised
           /\ aborted' = h.aborted
           /\ cpc' = IF h.aborted THEN cpc
                     ELSE IF h.raised.kind = "exception" THEN "failed"
                     ELSE IF cpc = "done" THEN "input"
                     ELSE cpc
    /\ envFault' = TRUE
    /\ UNCHANGED <<stream, pos, ppc, cur, inPtr, payload, panicMsg, taskPanicked,
                   ops, cptr, mem, recv>>

\* The runtime has one worker thread, and a loop task gives it up only when it
\* ends (the exchanges block the thread; the stream modelled here is never
\* pending): the worker takes up the next spawned loop task once the one before
\* has ended. The new task starts at the loop head, over the same stream, with
\* nothing of its own yet.
NextLoopTask ==
    /\ UNCHANGED <<readerVars, initVars, handleVars>>
    /\ ~aborted
    /\ ppc = "done"
    /\ more_tasks > 0
    /\ more_tasks' = more_tasks - 1
    /\ ppc' = "pull"
    /\ cur' = NoBatch
    /\ inPtr' = 0
    /\ payload' = NoPayload
    /\ panicMsg' = <<>>
    /\ UNCHANGED <<stream, pos, taskPanicked, ops, cpc, cptr, mem, recv, envFault,
                   raised, aborted, more_calls>>

PullNext ==
    \/ LoadBatches
    \/ LoadBatchesFault
    \/ LoadBatchesAgain
    \/ LoadBatchesAgainFault
    \/ NextLoopTask
    \/ PullBatch
    \/ PullEmpty
    \/ PullError
    \/ PullEnd
    \/ ExchangeInput
    \/ InputExchangeFault
    \/ Export
    \/ ExportFault
    \/ NewBoolean
    \/ NewBooleanFault
    \/ ExchangeOutput
    \/ OutputExchangeFault
    \/ SendError
    \/ BuildErrorFault
    \/ ErrorExchangeFault

PullSpec == LoopInit /\ [][PullNext]_vars

\* -------------------------------------- claims on repeated loadBatches

\* C22 as stated: however often loadBatches is called on the handle, as long as
\* no JNI call fails, a loop task is taken up only when the one before it has
\* ended, the batches the caller has received are the first of the stream's
\* batches with rows, each once and in stream order, and at most one terminal
\* exchange (end of stream or error) is performed for the handle; once every
\* spawned task has ended, exactly one has been.
C22_RepeatedPullOneTerminal ==
    /\ [](~envFault =>
            /\ IsPrefix(SelectSeq(recv, HasRows), NonEmptyBatches(stream))
            /\ Len(TerminalOps(ops)) <= 1
            /\ ((ppc = "done" /\ more_tasks = 0) => Len(TerminalOps(ops)) = 1))
    /\ [][more_tasks' < more_tasks => ppc = "done"]_vars

====
